---- MODULE Spec2Model ----
(***************************************************************************)
(* Model of the tile layout front end of waveterm:                         *)
(*   - determineDropDirection (frontend/faraday/lib/utils.ts), the pure    *)
(*     classification of a pointer against a rectangle;                    *)
(*   - the drag-and-drop protocol of TileLayout.tsx (useDragLayer,         *)
(*     checkForCursorBounds, OverlayNode canDrop/drop/hover) driving the   *)
(*     layout model's treeReducer;                                         *)
(*   - the resize handles of TileLayout.tsx (ResizeHandle: pointer        *)
(*     capture, throttled pointer moves, debounced release) and the first  *)
(*     paint of TileLayoutComponent (ready, animate);                      *)
(*   - the layout tree of the layout model (insert, remove, move,          *)
(*     magnify) as rendered by DisplayNodesWrapper;                        *)
(*   - the CopyButton of frontend/app/element/copybutton.tsx.              *)
(*                                                                         *)
(* Numbers.  Widths, heights and pointer coordinates are integers.  The    *)
(* source compares x with (2 * width) / 5 and the like in IEEE doubles;    *)
(* for integers of this size the comparison x > (2 * width) / 5 has the    *)
(* same outcome as 5 * x > 2 * width, which is how it is written here.     *)
(***************************************************************************)
EXTENDS Integers, Sequences, FiniteSets, TLC

VARIABLES
    \* ---- determineDropDirection, applied to drawn inputs ----
    ddDimensions,   \* the `dimensions` argument (or absent)
    ddOffset,       \* the `offset` argument (or absent)
    ddResult,       \* result for (ddDimensions, ddOffset), NotRun before the call
    ddRotResult,    \* result for the pointer rotated by 180 degrees about the centre
    \* ---- drag and drop over the tile layout ----
    tree,           \* layoutModel.treeState: the leafs in layout order
    generation,     \* layoutModel.generationAtom
    pendingAction,  \* layoutModel.pendingAction, current value
    pendingView,    \* pendingAction.throttledValueAtom as captured by the rendered handlers
    renderedGen,    \* generation captured by the rendered handlers
    renderedTree,   \* the tree as rendered: the rectangles the handlers and the DOM use
    dragItem,       \* monitor.getItem(): id of the dragged leaf, NoNode when idle
    clientOffset,   \* monitor.getClientOffset()
    hoverThrottle,  \* per overlay node: state of its throttle(30, ...) wrapper
    hoverStale,     \* per overlay node: trees captured by discarded wrappers whose trailing timer is pending
    boundsTimer,    \* pending timer of the current debounce(100, ...) wrapper
    boundsStale,    \* arguments of pending timers of discarded debounce wrappers
    treeAtDragStart,\* the tree when the current (or last) drag began
    lastRun,        \* the handler that ran last and what it dispatched
    \* ---- first paint and resize handles ----
    ready,          \* layoutModel.ready
    animate,        \* useState of TileLayoutComponent
    readyTimer,     \* the 50ms timer of the mount effect: "unset" before the mount, "armed", "fired"
    isResizing,     \* layoutModel.isResizing
    captureTarget,  \* per pointer: the resize handle that holds its pointer capture, NoHandle if none
    gotDue,         \* per pointer: gotpointercapture is still to be delivered
    trackingPointer,\* per resize handle: useState trackingPointer, NoPointer for undefined
    moveThrottle,   \* per resize handle: state of its throttle(10, ...) wrapper
    moveStale,      \* per resize handle: pending trailing timers of discarded wrappers
    releaseTimer,   \* per resize handle: the debounce(30, ...) timer of onPointerRelease is armed
    lastCall,       \* the call a resize handle made to the layout model in the last step
    \* ---- layout tree ----
    treeState,      \* layoutModel.treeState: rootNode, the nodes, magnifiedNodeId
    displayed,      \* the DisplayNodes as rendered: leaf id and class "magnified"
    lastOp,         \* the tree operation of the last step
    \* ---- CopyButton ----
    copyMounted,    \* the CopyButton is mounted
    onClickProp,    \* the onClick prop is given
    isCopied,       \* useState isCopied
    copiedView,     \* isCopied as captured by the rendered handleOnClick
    timeoutRef,     \* timeoutRef.current: the id of a timer, NoTimeout for null
    pendingTimeouts,\* the ids of the timers armed in the browser
    nextTimeout,    \* the id the next setTimeout returns
    clicks,         \* number of clicks on the button
    onClickCalls,   \* number of calls of the onClick prop
    copiedPeriods,  \* number of times isCopied went from false to true
    lastCopy        \* the step of the CopyButton taken last

ddVars == <<ddDimensions, ddOffset, ddResult, ddRotResult>>

dragVars == <<tree, generation, pendingAction, pendingView, renderedGen, renderedTree, dragItem,
              clientOffset, hoverThrottle, hoverStale, boundsTimer, boundsStale,
              treeAtDragStart, lastRun>>

rzVars == <<ready, animate, readyTimer, isResizing, captureTarget, gotDue, trackingPointer,
            moveThrottle, moveStale, releaseTimer, lastCall>>

trVars == <<treeState, displayed, lastOp>>

cbVars == <<copyMounted, onClickProp, isCopied, copiedView, timeoutRef, pendingTimeouts,
            nextTimeout, clicks, onClickCalls, copiedPeriods, lastCopy>>

vars == <<ddVars, dragVars, rzVars, trVars, cbVars>>

-----------------------------------------------------------------------------
(* Bounds of the model. *)

MaxDim == 8         \* largest width / height drawn for determineDropDirection
MaxOrigin == 1      \* largest left / top drawn for determineDropDirection
MaxClicks == 4      \* clicks on a CopyButton

-----------------------------------------------------------------------------
(* enum DropDirection, utils.ts:14-24; Undefined stands for `undefined`. *)

Top == 0
Right == 1
Bottom == 2
Left == 3
OuterTop == 4
OuterRight == 5
OuterBottom == 6
OuterLeft == 7
Center == 8
Undefined == 0 - 1
NotRun == 0 - 2

DropDirection == {Top, Right, Bottom, Left, OuterTop, OuterRight, OuterBottom, OuterLeft, Center}

\* interface Dimensions and XYCoord; `present = FALSE` is undefined / null.
Dims(w, h, l, t) == [present |-> TRUE, width |-> w, height |-> h, left |-> l, top |-> t]
NoDims == [present |-> FALSE, width |-> 0, height |-> 0, left |-> 0, top |-> 0]
XY(px, py) == [present |-> TRUE, x |-> px, y |-> py]
NoXY == [present |-> FALSE, x |-> 0, y |-> 0]

-----------------------------------------------------------------------------
(* determineDropDirection, utils.ts:35-82.  x and y are already relative   *)
(* to (left, top) in the helpers.                                          *)

\* utils.ts:44, with the comparison of y > height dropped.
LiesOutside_noBottom(x, y, width, height) ==
    y < 0 \/ x < 0 \/ x > width

\* utils.ts:44  "Lies outside of the box"
LiesOutside(x, y, width, height) ==
    y < 0 \/ y > height \/ x < 0 \/ x > width

\* utils.ts:47-52 with the bounds made inclusive.
InCenter_inclusive(x, y, width, height) ==
    /\ 5 * x >= 2 * width
    /\ 5 * x <= 3 * width
    /\ 5 * y >= 2 * height
    /\ 5 * y <= 3 * height

\* utils.ts:47-52  x > centerX1 && x < centerX2 && y > centerY1 && y < centerY2
InCenter(x, y, width, height) ==
    /\ 5 * x > 2 * width
    /\ 5 * x < 3 * width
    /\ 5 * y > 2 * height
    /\ 5 * y < 3 * height

\* utils.ts:54
diagonal1(x, y, width, height) == y * width - x * height

\* utils.ts:55
diagonal2(x, y, width, height) == y * width + x * height - height * width

\* utils.ts:58 testing the main diagonal only.
OnDiagonal_mainOnly(x, y, width, height) ==
    diagonal1(x, y, width, height) = 0

\* utils.ts:58  "Lies on diagonal"
OnDiagonal(x, y, width, height) ==
    \/ diagonal1(x, y, width, height) = 0
    \/ diagonal2(x, y, width, height) = 0

\* utils.ts:60-69 without the reflection code = 5 - code.
QuadrantCode_noFlip(x, y, width, height) ==
    LET c1 == IF diagonal2(x, y, width, height) > 0 THEN 1 ELSE 0
    IN  IF diagonal1(x, y, width, height) > 0 THEN c1 + 2 ELSE c1

\* utils.ts:60-69
QuadrantCode(x, y, width, height) ==
    LET c1 == IF diagonal2(x, y, width, height) > 0 THEN 1 ELSE 0
    IN  IF diagonal1(x, y, width, height) > 0 THEN 5 - (c1 + 2) ELSE c1

\* utils.ts:72-77 adding 4 for every pointer.
NearEdge_always(x, y, width, height) == TRUE

\* utils.ts:72-77 looking at the x margins only.
NearEdge_xOnly(x, y, width, height) ==
    \/ 5 * x < width
    \/ 5 * x > 5 * width - width

\* utils.ts:72-77  y < yOuter1 || y > yOuter2 || x < xOuter1 || x > xOuter2
NearEdge(x, y, width, height) ==
    \/ 5 * y < height
    \/ 5 * y > 5 * height - height
    \/ 5 * x < width
    \/ 5 * x > 5 * width - width

\* utils.ts:35-82
determineDropDirection(dimensions, offset) ==
    IF ~offset.present \/ ~dimensions.present THEN Undefined
    ELSE
        LET width == dimensions.width
            height == dimensions.height
            x == offset.x - dimensions.left
            y == offset.y - dimensions.top
        IN  IF LiesOutside(x, y, width, height) THEN Undefined
            ELSE IF InCenter(x, y, width, height) THEN Center
            ELSE IF OnDiagonal(x, y, width, height) THEN Undefined
            ELSE QuadrantCode(x, y, width, height)
                 + (IF NearEdge(x, y, width, height) THEN 4 ELSE 0)

-----------------------------------------------------------------------------
(* The layout shown by TileLayout.  The leafs lie side by side in one row  *)
(* of the display container; the leaf at position i of the tree occupies   *)
(* the i-th cell.  Rectangles of leafs are relative to the display         *)
(* container, pointer positions are client coordinates.                    *)

MaxGen == 1         \* drags are started while generation < MaxGen

\* The layout has two leafs; a leaf is known by its id.
NoNode == 0
Leafs == {1, 2}
NumLeafs == Cardinality(Leafs)

\* All orders of the leafs.
Trees == {t \in [1 .. NumLeafs -> Leafs] : \A i, j \in 1 .. NumLeafs : t[i] = t[j] => i = j}

InitialTree == [i \in 1 .. NumLeafs |-> i]

IndexOf(t, n) == CHOOSE i \in 1 .. Len(t) : t[i] = n

\* layoutModel.displayContainerRef.current.getBoundingClientRect()
ContainerRect == [x |-> 1, y |-> 1, width |-> NumLeafs * 10, height |-> 10]

\* additionalProps.rect of a leaf (useLayoutNode), for the tree as rendered.
LeafRect(t, n) == Dims(10, 10, (IndexOf(t, n) - 1) * 10, 0)

\* Pointer positions delivered by the drag layer, in client coordinates:
\* left of the container, on its left border, in the first cell a point on
\* the main diagonal, and in every cell a point of the left quadrant.
Points ==
    {XY(0, 6), XY(1, 6), XY(ContainerRect.x + 3, ContainerRect.y + 3)}
    \cup {XY(ContainerRect.x + (i - 1) * 10 + 3, ContainerRect.y + 5) : i \in 1 .. NumLeafs}

\* TileLayout.tsx:354-355  offset.x -= containerRect?.x; offset.y -= containerRect?.y
Normalize(offset) == XY(offset.x - ContainerRect.x, offset.y - ContainerRect.y)

\* The overlay node under the pointer: the drop target the DnD layer reports
\* as hovered.  Each overlay node covers its cell, right and bottom edges
\* excluded.
NodeAt(t, offset) ==
    IF ~offset.present THEN NoNode
    ELSE LET p == Normalize(offset)
             hit == {n \in Leafs : LET r == LeafRect(t, n)
                                   IN  /\ p.x >= r.left /\ p.x < r.left + r.width
                                       /\ p.y >= r.top /\ p.y < r.top + r.height}
         IN  IF hit = {} THEN NoNode ELSE CHOOSE n \in hit : TRUE

-----------------------------------------------------------------------------
(* layoutModel.treeReducer.  The layout model is not part of the sources   *)
(* at hand; the reducer follows sections 3, 4.2, 4.3 and 4.5 of the        *)
(* specification.  A model state is [tree, generation, pendingAction].     *)

NoAction == [present |-> FALSE, node |-> NoNode, nodeToMove |-> NoNode, direction |-> Undefined]

MoveAction(n, m, d) == [present |-> TRUE, node |-> n, nodeToMove |-> m, direction |-> d]

RemoveLeaf(t, n) == [i \in 1 .. Len(t) - 1 |-> IF i < IndexOf(t, n) THEN t[i] ELSE t[i + 1]]

InsertLeaf(t, k, n) ==
    [i \in 1 .. Len(t) + 1 |-> IF i < k THEN t[i] ELSE IF i = k THEN n ELSE t[i - 1]]

\* The moved leaf is taken out and put back next to the target (inner
\* directions and Center) or at the outer end of the row (Outer directions).
ApplyMove(t, a) ==
    LET rest == RemoveLeaf(t, a.nodeToMove)
        at == IndexOf(rest, a.node)
    IN  IF a.direction \in {Top, Left} THEN InsertLeaf(rest, at, a.nodeToMove)
        ELSE IF a.direction \in {Bottom, Right, Center} THEN InsertLeaf(rest, at + 1, a.nodeToMove)
        ELSE IF a.direction \in {OuterTop, OuterLeft} THEN InsertLeaf(rest, 1, a.nodeToMove)
        ELSE InsertLeaf(rest, Len(rest) + 1, a.nodeToMove)

ComputeMoveAct(n, m, d) == [type |-> "ComputeMove", node |-> n, nodeToMove |-> m, direction |-> d]
ClearPendingAct == [type |-> "ClearPendingAction", node |-> NoNode, nodeToMove |-> NoNode, direction |-> Undefined]
CommitPendingAct == [type |-> "CommitPendingAction", node |-> NoNode, nodeToMove |-> NoNode, direction |-> Undefined]
NoDispatch == [type |-> "none", node |-> NoNode, nodeToMove |-> NoNode, direction |-> Undefined]

\* A commit that applies the move and keeps the pending action.
treeReducer_keepPending(s, action) ==
    IF action.type = "ComputeMove"
    THEN IF action.direction = Undefined
         THEN [s EXCEPT !.pendingAction = NoAction]
         ELSE IF action.node = action.nodeToMove THEN s
         ELSE [s EXCEPT !.pendingAction = MoveAction(action.node, action.nodeToMove, action.direction)]
    ELSE IF action.type = "ClearPendingAction"
    THEN [s EXCEPT !.pendingAction = NoAction]
    ELSE IF action.type = "CommitPendingAction" /\ s.pendingAction.present
    THEN [tree |-> ApplyMove(s.tree, s.pendingAction),
          generation |-> s.generation + 1,
          pendingAction |-> s.pendingAction]
    ELSE s

treeReducer(s, action) ==
    IF action.type = "ComputeMove"
    THEN IF action.direction = Undefined
         THEN [s EXCEPT !.pendingAction = NoAction]
         ELSE IF action.node = action.nodeToMove THEN s
         ELSE [s EXCEPT !.pendingAction = MoveAction(action.node, action.nodeToMove, action.direction)]
    ELSE IF action.type = "ClearPendingAction"
    THEN [s EXCEPT !.pendingAction = NoAction]
    ELSE IF action.type = "CommitPendingAction"
    THEN IF s.pendingAction.present
         THEN [tree |-> ApplyMove(s.tree, s.pendingAction),
               generation |-> s.generation + 1,
               pendingAction |-> NoAction]
         ELSE s
    ELSE s

ModelState == [tree |-> tree, generation |-> generation, pendingAction |-> pendingAction]

\* Dispatch of `action` to the layout model; "none" dispatches nothing.
Dispatch(action) ==
    LET s == treeReducer(ModelState, action)
    IN  /\ tree' = s.tree
        /\ generation' = s.generation
        /\ pendingAction' = s.pendingAction

-----------------------------------------------------------------------------
(* The DnD monitor as seen by an overlay node, TileLayout.tsx:329-371.     *)

\* monitor.isOver({ shallow: true }) for overlay node n: a drag is in
\* progress and the pointer is over n.
IsOver(n, item, offset) == item # NoNode /\ NodeAt(renderedTree, offset) = n

\* TileLayout.tsx:332-338 without the comparison of the ids.
canDrop_noSelfCheck(n, item, offset) == IsOver(n, item, offset)

\* TileLayout.tsx:332-338  canDrop of the drop target specification
canDrop(n, item, offset) == IsOver(n, item, offset) /\ item # n

\* monitor.canDrop(): a drag is in progress and the target accepts the item.
MonitorCanDrop(n, item, offset) == item # NoNode /\ canDrop(n, item, offset)

\* layoutModel.displayContainerRef?.current is set while TileLayout is mounted.
DisplayContainerMounted == TRUE

\* TileLayout.tsx:347-368 dispatching nothing when determineDropDirection
\* returns undefined.
hover_skipUndefined(n, rt, item, offset) ==
    IF IsOver(n, item, offset)
    THEN IF MonitorCanDrop(n, item, offset) /\ DisplayContainerMounted
         THEN IF determineDropDirection(LeafRect(rt, n), Normalize(offset)) = Undefined
              THEN NoDispatch
              ELSE ComputeMoveAct(n, item, determineDropDirection(LeafRect(rt, n), Normalize(offset)))
         ELSE ClearPendingAct
    ELSE NoDispatch

\* TileLayout.tsx:347-368 with CommitPendingAction in the else branch.
hover_commitInElse(n, rt, item, offset) ==
    IF IsOver(n, item, offset)
    THEN IF MonitorCanDrop(n, item, offset) /\ DisplayContainerMounted
         THEN ComputeMoveAct(n, item, determineDropDirection(LeafRect(rt, n), Normalize(offset)))
         ELSE CommitPendingAct
    ELSE NoDispatch

\* TileLayout.tsx:347-368 without the test of monitor.isOver.
hover_noIsOver(n, rt, item, offset) ==
    IF MonitorCanDrop(n, item, offset) /\ DisplayContainerMounted
    THEN ComputeMoveAct(n, item, determineDropDirection(LeafRect(rt, n), Normalize(offset)))
    ELSE ClearPendingAct

\* TileLayout.tsx:347-368  body of the hover handler of overlay node n; rt is
\* the tree whose rectangles the closure captured.  The result is the action
\* it dispatches.
hover(n, rt, item, offset) ==
    IF IsOver(n, item, offset)
    THEN IF MonitorCanDrop(n, item, offset) /\ DisplayContainerMounted
         THEN ComputeMoveAct(n, item, determineDropDirection(LeafRect(rt, n), Normalize(offset)))
         ELSE ClearPendingAct
    ELSE NoDispatch

\* TileLayout.tsx:339-346 without the test of pendingAction.
drop_alwaysCommit(view) == CommitPendingAct

\* TileLayout.tsx:339-346  body of the drop handler; monitor.didDrop() is
\* false, the overlay nodes are not nested.
drop(view) == IF view.present THEN CommitPendingAct ELSE NoDispatch

\* TileLayout.tsx:73-78 with strict comparisons.
OutOfBounds_strict(cursorPoint) ==
    LET normalizedX == cursorPoint.x - ContainerRect.x
        normalizedY == cursorPoint.y - ContainerRect.y
    IN  \/ normalizedX < 0
        \/ normalizedX > ContainerRect.width
        \/ normalizedY < 0
        \/ normalizedY > ContainerRect.height

\* TileLayout.tsx:71-78
OutOfBounds(cursorPoint) ==
    LET normalizedX == cursorPoint.x - ContainerRect.x
        normalizedY == cursorPoint.y - ContainerRect.y
    IN  \/ normalizedX <= 0
        \/ normalizedX >= ContainerRect.width
        \/ normalizedY <= 0
        \/ normalizedY >= ContainerRect.height

\* TileLayout.tsx:67-82  callback of checkForCursorBounds; cursor is what
\* getCursorPoint?.() returns (absent when the prop is not given).
checkForCursorBounds(dragClientOffset, cursor) ==
    LET cursorPoint == IF dragClientOffset.present THEN dragClientOffset ELSE cursor
    IN  IF cursorPoint.present /\ DisplayContainerMounted
        THEN IF OutOfBounds(cursorPoint) THEN ClearPendingAct ELSE NoDispatch
        ELSE NoDispatch

\* What getCursorPoint?.() may return.
CursorPoints == Points \cup {NoXY}

-----------------------------------------------------------------------------
(* Timers.  throttle(30, f): a call runs f at once when more than 30ms     *)
(* have passed since f last ran ("open"); a call inside the window         *)
(* ("closed") arms a timer that runs f at the end of the window            *)
(* ("trailing").  debounce(100, f): every call re-arms one timer that runs *)
(* f with the arguments of the last call.  A wrapper that a render         *)
(* replaces keeps its armed timer: nothing cancels it.                     *)

NoTimer == [pending |-> FALSE, arg |-> NoXY]
Armed(arg) == [pending |-> TRUE, arg |-> arg]

\* Record of the handler that ran in the last step.
Ran(h, n, arg, act) ==
    lastRun' = IF h \in {"hover", "bounds", "drop", "endDrag"}
               THEN [handler |-> h, node |-> n, type |-> act.type,
                     arg |-> IF h = "bounds" THEN arg ELSE NoXY]
               ELSE [handler |-> "none", node |-> NoNode, type |-> "none", arg |-> NoXY]

IdleRun == [handler |-> "none", node |-> NoNode, type |-> "none", arg |-> NoXY]

\* TileLayout.tsx:88  useEffect(() => checkForCursorBounds(dragClientOffset), [dragClientOffset])
BoundsEffect(newOffset) ==
    boundsTimer' = IF newOffset # clientOffset THEN Armed(newOffset) ELSE boundsTimer

-----------------------------------------------------------------------------
(* Events of a drag. *)

\* No timer is armed and React has rendered the current model state.
Quiescent ==
    /\ \A n \in Leafs : hoverThrottle[n] = "open" /\ hoverStale[n] = {}
    /\ ~boundsTimer.pending
    /\ boundsStale = {}
    /\ pendingView = pendingAction
    /\ renderedGen = generation

\* A leaf is picked up by its drag handle (useDrag, TileLayout.tsx:190-199);
\* the drag layer reports isDragging and the pointer position.  Picking up
\* a leaf takes the user longer than the 100ms of the longest timer: a drag
\* begins when the timers of the previous one have run.
BeginDrag(n, p) ==
    /\ dragItem = NoNode
    /\ generation < MaxGen
    /\ Quiescent
    /\ NodeAt(renderedTree, p) = n
    /\ dragItem' = n
    /\ clientOffset' = p
    /\ treeAtDragStart' = tree
    /\ BoundsEffect(p)
    /\ Ran("beginDrag", n, p, NoDispatch)
    /\ UNCHANGED <<tree, generation, pendingAction, pendingView, renderedGen, renderedTree,
                   hoverThrottle, hoverStale, boundsStale>>

\* A dragover event at p: the monitor takes the position, the throttled
\* hover of the overlay node under the pointer is called, and the effect of
\* line 88 runs when the position changed.
DragOver(p) ==
    /\ dragItem # NoNode
    /\ clientOffset' = p
    /\ BoundsEffect(p)
    /\ LET n == NodeAt(renderedTree, p)
       IN  IF n # NoNode /\ hoverThrottle[n] = "open"
           THEN /\ Dispatch(hover(n, renderedTree, dragItem, p))
                /\ hoverThrottle' = [hoverThrottle EXCEPT ![n] = "closed"]
                /\ Ran("hover", n, p, hover(n, renderedTree, dragItem, p))
           ELSE /\ hoverThrottle' = IF n # NoNode
                                    THEN [hoverThrottle EXCEPT ![n] = "trailing"]
                                    ELSE hoverThrottle
                /\ Ran("dragOver", n, p, NoDispatch)
                /\ UNCHANGED <<tree, generation, pendingAction>>
    /\ UNCHANGED <<pendingView, renderedGen, renderedTree, dragItem, hoverStale, boundsStale,
                   treeAtDragStart>>

\* More than 30ms have passed since the hover of n last ran.
HoverWindowElapse(n) ==
    /\ hoverThrottle[n] = "closed"
    /\ hoverThrottle' = [hoverThrottle EXCEPT ![n] = "open"]
    /\ Ran("elapse", n, NoXY, NoDispatch)
    /\ UNCHANGED <<tree, generation, pendingAction, pendingView, renderedGen, renderedTree,
                   dragItem, clientOffset, hoverStale, boundsTimer, boundsStale, treeAtDragStart>>

\* The trailing timer of the throttled hover of n fires: the body runs
\* against the monitor as it is now.
HoverTrailingFire(n) ==
    /\ hoverThrottle[n] = "trailing"
    /\ Dispatch(hover(n, renderedTree, dragItem, clientOffset))
    /\ hoverThrottle' = [hoverThrottle EXCEPT ![n] = "closed"]
    /\ Ran("hover", n, clientOffset, hover(n, renderedTree, dragItem, clientOffset))
    /\ UNCHANGED <<pendingView, renderedGen, renderedTree, dragItem, clientOffset, hoverStale,
                   boundsTimer, boundsStale, treeAtDragStart>>

\* The trailing timer of a discarded hover wrapper of n fires; its closure
\* holds the rectangles of the tree rt.
HoverStaleFire(n, rt) ==
    /\ rt \in hoverStale[n]
    /\ Dispatch(hover(n, rt, dragItem, clientOffset))
    /\ hoverStale' = [hoverStale EXCEPT ![n] = @ \ {rt}]
    /\ Ran("hover", n, clientOffset, hover(n, rt, dragItem, clientOffset))
    /\ UNCHANGED <<pendingView, renderedGen, renderedTree, dragItem, clientOffset, hoverThrottle,
                   boundsTimer, boundsStale, treeAtDragStart>>

\* The timer of the current checkForCursorBounds fires.
BoundsFire(cursor) ==
    /\ boundsTimer.pending
    /\ Dispatch(checkForCursorBounds(boundsTimer.arg, cursor))
    /\ boundsTimer' = NoTimer
    /\ Ran("bounds", NoNode, boundsTimer.arg, checkForCursorBounds(boundsTimer.arg, cursor))
    /\ UNCHANGED <<pendingView, renderedGen, renderedTree, dragItem, clientOffset, hoverThrottle,
                   hoverStale, boundsStale, treeAtDragStart>>

\* The timer of a discarded checkForCursorBounds fires.
BoundsStaleFire(arg, cursor) ==
    /\ arg \in boundsStale
    /\ Dispatch(checkForCursorBounds(arg, cursor))
    /\ boundsStale' = boundsStale \ {arg}
    /\ Ran("bounds", NoNode, arg, checkForCursorBounds(arg, cursor))
    /\ UNCHANGED <<pendingView, renderedGen, renderedTree, dragItem, clientOffset, hoverThrottle,
                   hoverStale, boundsTimer, treeAtDragStart>>

\* The item is released over overlay node n, which can take it: the drop
\* handler of n runs (TileLayout.tsx:339-346) and the drag ends.
Drop(n) ==
    /\ dragItem # NoNode
    /\ canDrop(n, dragItem, clientOffset)
    /\ Dispatch(drop(pendingView))
    /\ dragItem' = NoNode
    /\ clientOffset' = NoXY
    /\ BoundsEffect(NoXY)
    /\ Ran("drop", n, clientOffset, drop(pendingView))
    /\ UNCHANGED <<pendingView, renderedGen, renderedTree, hoverThrottle, hoverStale,
                   boundsStale, treeAtDragStart>>

\* The drag ends without a drop: released where nothing takes the item, or
\* cancelled.
EndDrag ==
    /\ dragItem # NoNode
    /\ dragItem' = NoNode
    /\ clientOffset' = NoXY
    /\ BoundsEffect(NoXY)
    /\ Ran("endDrag", NoNode, clientOffset, NoDispatch)
    /\ UNCHANGED <<tree, generation, pendingAction, pendingView, renderedGen, renderedTree,
                   hoverThrottle, hoverStale, boundsStale, treeAtDragStart>>

\* React renders after the model changed: the handlers are created anew
\* from the current pendingAction, generation and rectangles.  useDrop
\* (deps of line 370) replaces the throttled hover of every overlay node;
\* useCallback (deps of line 83) replaces checkForCursorBounds when the
\* generation changed.
Render ==
    /\ pendingView # pendingAction \/ renderedGen # generation
    /\ pendingView' = pendingAction
    /\ renderedGen' = generation
    /\ renderedTree' = tree
    /\ hoverThrottle' = [n \in Leafs |-> "open"]
    /\ hoverStale' = [n \in Leafs |-> IF hoverThrottle[n] = "trailing"
                                     THEN hoverStale[n] \cup {renderedTree}
                                     ELSE hoverStale[n]]
    /\ IF renderedGen # generation /\ boundsTimer.pending
       THEN /\ boundsStale' = boundsStale \cup {boundsTimer.arg}
            /\ boundsTimer' = NoTimer
       ELSE UNCHANGED <<boundsTimer, boundsStale>>
    /\ Ran("render", NoNode, NoXY, NoDispatch)
    /\ UNCHANGED <<tree, generation, pendingAction, dragItem, clientOffset, treeAtDragStart>>

-----------------------------------------------------------------------------
(* Resize handles and first paint: values and the state before the mount.  *)

Handles == {1, 2}
Pointers == {1, 2}
NoPointer == 0
NoHandle == 0

\* A pointermove event: event.pointerId, and whether the handle that holds
\* it has already passed an event that arrived later to onResizeMove.
NoEvent == [pointerId |-> NoPointer, late |-> FALSE]
PointerEvent(p) == [pointerId |-> p, late |-> FALSE]
Overtaken(e) == [e EXCEPT !.late = TRUE]

\* State of a throttle(10, ...) wrapper: "open", "closed" or "trailing"; a
\* trailing timer holds the event of the last call.
IdleThrottle == [state |-> "open", event |-> NoEvent]
ClosedThrottle == [state |-> "closed", event |-> NoEvent]
TrailingThrottle(e) == [state |-> "trailing", event |-> e]

\* A call of a resize handle to the layout model: the function, the handle,
\* the trackingPointer of the closure, the event, and whether the timer of
\* a discarded wrapper made the call.
NoCall == [fn |-> "none", handle |-> NoHandle, track |-> NoPointer, event |-> NoEvent,
           stale |-> FALSE]

\* TileLayout.tsx:92-99, 403  state of the components before the mount
\* effect ran; layoutModel.ready is as the model holds it.
ResizeInit ==
    /\ ready \in BOOLEAN
    /\ animate = FALSE
    /\ readyTimer = "unset"
    /\ isResizing = FALSE
    /\ captureTarget = [p \in Pointers |-> NoHandle]
    /\ gotDue = [p \in Pointers |-> FALSE]
    /\ trackingPointer = [h \in Handles |-> NoPointer]
    /\ moveThrottle = [h \in Handles |-> IdleThrottle]
    /\ moveStale = [h \in Handles |-> {}]
    /\ releaseTimer = [h \in Handles |-> FALSE]
    /\ lastCall = NoCall

ResizeIdle == ResizeInit /\ ready = FALSE

-----------------------------------------------------------------------------
(* The layout tree.  The layout model is not part of the sources at hand;  *)
(* the tree follows sections 3 and 4.2 of the specification.  A tree state *)
(* is [rootNode, kind, children, magnifiedNodeId]: kind[n] is "leaf",      *)
(* "container" or "free" (no such node), children[n] the ordered children  *)
(* of a container.                                                         *)

\* The node ids of a layout tree: room for three leafs and two containers.
NodeIds == {1, 2, 3, 4, 5}

EmptyTreeState ==
    [rootNode |-> NoNode,
     kind |-> [n \in NodeIds |-> "free"],
     children |-> [n \in NodeIds |-> <<>>],
     magnifiedNodeId |-> NoNode]

NoOp == [op |-> "none", collapsed |-> FALSE]

TreeIdle ==
    /\ treeState = EmptyTreeState
    /\ displayed = <<>>
    /\ lastOp = NoOp

-----------------------------------------------------------------------------
(* The CopyButton, copybutton.tsx:15-54: the state of a mounted button.    *)

NoTimeout == 0

\* A step of the CopyButton and whether it called the onClick prop.
CopyStep(step, called) == [step |-> step, called |-> called]

\* copybutton.tsx:16-17  useState(false), useRef(null)
CopyInit ==
    /\ copyMounted = TRUE
    /\ onClickProp \in BOOLEAN
    /\ isCopied = FALSE
    /\ copiedView = FALSE
    /\ timeoutRef = NoTimeout
    /\ pendingTimeouts = {}
    /\ nextTimeout = 1
    /\ clicks = 0
    /\ onClickCalls = 0
    /\ copiedPeriods = 0
    /\ lastCopy = CopyStep("none", FALSE)

CopyIdle == CopyInit /\ onClickProp = FALSE

-----------------------------------------------------------------------------
(* Specification of the drag and drop protocol. *)

DdIdle ==
    /\ ddDimensions = NoDims
    /\ ddOffset = NoXY
    /\ ddResult = NotRun
    /\ ddRotResult = NotRun

\* TileLayout mounted, no drag in progress; the effect of line 88 has run
\* once with dragClientOffset = null.
DragInit ==
    /\ tree = InitialTree
    /\ generation = 0
    /\ pendingAction = NoAction
    /\ pendingView = NoAction
    /\ renderedGen = 0
    /\ renderedTree = InitialTree
    /\ dragItem = NoNode
    /\ clientOffset = NoXY
    /\ hoverThrottle = [n \in Leafs |-> "open"]
    /\ hoverStale = [n \in Leafs |-> {}]
    /\ boundsTimer = Armed(NoXY)
    /\ boundsStale = {}
    /\ treeAtDragStart = InitialTree
    /\ lastRun = IdleRun

InitDrag == DdIdle /\ DragInit /\ ResizeIdle /\ TreeIdle /\ CopyIdle

NextDrag ==
    \/ \E n \in Leafs, p \in Points : BeginDrag(n, p) /\ UNCHANGED <<ddVars, rzVars, trVars, cbVars>>
    \/ \E p \in Points : DragOver(p) /\ UNCHANGED <<ddVars, rzVars, trVars, cbVars>>
    \/ \E n \in Leafs : HoverWindowElapse(n) /\ UNCHANGED <<ddVars, rzVars, trVars, cbVars>>
    \/ \E n \in Leafs : HoverTrailingFire(n) /\ UNCHANGED <<ddVars, rzVars, trVars, cbVars>>
    \/ \E n \in Leafs, rt \in Trees : HoverStaleFire(n, rt) /\ UNCHANGED <<ddVars, rzVars, trVars, cbVars>>
    \/ \E c \in CursorPoints : BoundsFire(c) /\ UNCHANGED <<ddVars, rzVars, trVars, cbVars>>
    \/ \E a \in CursorPoints, c \in CursorPoints : BoundsStaleFire(a, c) /\ UNCHANGED <<ddVars, rzVars, trVars, cbVars>>
    \/ \E n \in Leafs : Drop(n) /\ UNCHANGED <<ddVars, rzVars, trVars, cbVars>>
    \/ EndDrag /\ UNCHANGED <<ddVars, rzVars, trVars, cbVars>>
    \/ Render /\ UNCHANGED <<ddVars, rzVars, trVars, cbVars>>

SpecDrag == InitDrag /\ [][NextDrag]_vars

-----------------------------------------------------------------------------
(* Specification of determineDropDirection on drawn inputs: rectangles of  *)
(* every size up to MaxDim at every origin up to MaxOrigin, pointers on    *)
(* the grid reaching one unit beyond the largest rectangle, the absent     *)
(* arguments, and the scenarios of the 100 x 100 rectangle.                *)

GridDims == {Dims(w, h, l, t) : w \in 0 .. MaxDim, h \in 0 .. MaxDim,
                                l \in 0 .. MaxOrigin, t \in 0 .. MaxOrigin}

GridOffsets == {XY(px, py) : px \in (0 - 1) .. (MaxOrigin + MaxDim + 1),
                             py \in (0 - 1) .. (MaxOrigin + MaxDim + 1)}

ScenarioDims == Dims(100, 100, 0, 0)

ScenarioOffsets == {XY(50, 50), XY(5, 50), XY(50, 5), XY(150, 50), XY(95, 50), XY(50, 95)}

DropInputs ==
    ((GridDims \cup {NoDims}) \X (GridOffsets \cup {NoXY}))
    \cup ({ScenarioDims} \X ScenarioOffsets)

\* The pointer rotated by 180 degrees about the centre of the rectangle.
Rotated(dimensions, offset) ==
    IF ~offset.present \/ ~dimensions.present THEN offset
    ELSE XY(dimensions.left + dimensions.width - (offset.x - dimensions.left),
            dimensions.top + dimensions.height - (offset.y - dimensions.top))

InitDrop ==
    /\ \E in \in DropInputs : ddDimensions = in[1] /\ ddOffset = in[2]
    /\ ddResult = NotRun
    /\ ddRotResult = NotRun
    /\ DragInit
    /\ ResizeIdle
    /\ TreeIdle
    /\ CopyIdle

Classify ==
    /\ ddResult = NotRun
    /\ ddResult' = determineDropDirection(ddDimensions, ddOffset)
    /\ UNCHANGED <<ddDimensions, ddOffset, ddRotResult>>

ClassifyRotated ==
    /\ ddResult # NotRun
    /\ ddRotResult = NotRun
    /\ ddRotResult' = determineDropDirection(ddDimensions, Rotated(ddDimensions, ddOffset))
    /\ UNCHANGED <<ddDimensions, ddOffset, ddResult>>

NextDrop ==
    \/ Classify /\ UNCHANGED <<dragVars, rzVars, trVars, cbVars>>
    \/ ClassifyRotated /\ UNCHANGED <<dragVars, rzVars, trVars, cbVars>>

SpecDrop == InitDrop /\ [][NextDrop]_vars

-----------------------------------------------------------------------------
(* Properties of determineDropDirection.  RelX, RelY: the pointer relative *)
(* to (left, top) of the rectangle.                                        *)

Classified == ddResult # NotRun /\ ddDimensions.present /\ ddOffset.present
RelX == ddOffset.x - ddDimensions.left
RelY == ddOffset.y - ddDimensions.top
W == ddDimensions.width
H == ddDimensions.height

PointerOutside == RelX < 0 \/ RelX > W \/ RelY < 0 \/ RelY > H
PointerOnDiagonal == RelY * W = RelX * H \/ RelY * W + RelX * H = W * H
PointerInCenter ==
    /\ 2 * W < 5 * RelX /\ 5 * RelX < 3 * W
    /\ 2 * H < 5 * RelY /\ 5 * RelY < 3 * H
\* Above / below on the screen: y grows downwards.
AboveMain == RelY * W < RelX * H
BelowMain == RelY * W > RelX * H
AboveAnti == RelY * W + RelX * H < W * H
BelowAnti == RelY * W + RelX * H > W * H
PointerInMargin ==
    \/ 5 * RelX < W \/ 5 * (W - RelX) < W
    \/ 5 * RelY < H \/ 5 * (H - RelY) < H

\* C1: for every rectangle and every pointer outside it (relative x < 0,
\* x > width, y < 0 or y > height) the result is undefined.
C1_OutsideUndefined ==
    (Classified /\ PointerOutside) => ddResult = Undefined

C1_Witness ==
    Classified /\ RelY > H /\ RelX >= 0 /\ RelX <= W /\ W > 0 /\ ddResult = Undefined

\* C2 as stated: every pointer inside the rectangle that lies exactly on
\* either diagonal gives undefined.
C2_DiagonalUndefined ==
    (Classified /\ ~PointerOutside /\ PointerOnDiagonal) => ddResult = Undefined

\* C2 amended: a pointer inside the rectangle on either diagonal gives
\* undefined unless it is in the centre region, where it gives Center.
C2_DiagonalOutsideCenterUndefined ==
    (Classified /\ ~PointerOutside /\ PointerOnDiagonal)
        => ddResult = (IF PointerInCenter THEN Center ELSE Undefined)

C2_Witness ==
    /\ Classified /\ ~PointerOutside /\ ~PointerInCenter
    /\ RelY * W + RelX * H = W * H
    /\ RelY * W # RelX * H
    /\ ddResult = Undefined

\* C3: the result is Center exactly when the pointer is strictly between
\* 2/5 and 3/5 of the width on x and of the height on y.
C3_CenterExactly ==
    Classified => (ddResult = Center <=> PointerInCenter)

C3_Witness ==
    Classified /\ ddResult = Center /\ ~PointerOnDiagonal

\* C4: for a pointer inside the rectangle, outside the centre region and
\* off both diagonals, the side of the result (Outer or not) is the quadrant
\* of the pointer: Top above both diagonals, Right above the main and below
\* the anti-diagonal, Bottom below both, Left below the main and above the
\* anti-diagonal.
C4_QuadrantSide ==
    (Classified /\ ~PointerOutside /\ ~PointerInCenter /\ ~PointerOnDiagonal)
        => /\ ddResult \in 0 .. 7
           /\ ddResult % 4 = (IF AboveMain /\ AboveAnti THEN Top
                              ELSE IF AboveMain /\ BelowAnti THEN Right
                              ELSE IF BelowMain /\ BelowAnti THEN Bottom
                              ELSE Left)

C4_Witness ==
    Classified /\ BelowMain /\ AboveAnti /\ ~PointerInCenter /\ ddResult = Left

\* C5: a pointer classified into a quadrant gives the Outer variant when it
\* is closer than 1/5 of the width to the left or right edge or closer than
\* 1/5 of the height to the top or bottom edge, and the inner variant
\* otherwise; in the 100 x 100 rectangle at (0, 0), (5, 50) gives OuterLeft
\* and (50, 5) gives OuterTop.
C5_OuterInMargin ==
    /\ (Classified /\ ddResult \in 0 .. 7) => (ddResult >= 4 <=> PointerInMargin)
    /\ (Classified /\ ddDimensions = ScenarioDims /\ ddOffset = XY(5, 50)) => ddResult = OuterLeft
    /\ (Classified /\ ddDimensions = ScenarioDims /\ ddOffset = XY(50, 5)) => ddResult = OuterTop

C5_Witness ==
    Classified /\ ddDimensions = ScenarioDims /\ ddOffset = XY(50, 5) /\ ddResult = OuterTop

\* The result with Top and Bottom, Left and Right exchanged.
Opposite(d) ==
    IF d \in {Center, Undefined} THEN d
    ELSE IF d \in {Top, Right, OuterTop, OuterRight} THEN d + 2
    ELSE d - 2

\* C6: classifying the pointer rotated by 180 degrees about the centre of
\* the rectangle gives the result of the pointer with Top and Bottom, Left
\* and Right, OuterTop and OuterBottom, OuterLeft and OuterRight exchanged,
\* Center and undefined unchanged.
C6_RotationSymmetry ==
    (ddResult # NotRun /\ ddRotResult # NotRun) => ddRotResult = Opposite(ddResult)

C6_Witness ==
    Classified /\ ddResult = OuterLeft /\ ddRotResult = OuterRight

\* The pointer is closer than 1/5 of the height (width) to an edge.
InTopMargin == 5 * RelY < H
InBottomMargin == 5 * RelY > 4 * H
InLeftMargin == 5 * RelX < W
InRightMargin == 5 * RelX > 4 * W

\* The Outer variants of the edges in whose margin the pointer lies.
MarginVariants ==
    (IF InTopMargin THEN {OuterTop} ELSE {})
    \cup (IF InRightMargin THEN {OuterRight} ELSE {})
    \cup (IF InBottomMargin THEN {OuterBottom} ELSE {})
    \cup (IF InLeftMargin THEN {OuterLeft} ELSE {})

\* An Outer variant is returned only for a pointer in the margin of its
\* own edge.
OuterWithinOwnMargin ==
    /\ ddResult = OuterTop => InTopMargin
    /\ ddResult = OuterBottom => InBottomMargin
    /\ ddResult = OuterLeft => InLeftMargin
    /\ ddResult = OuterRight => InRightMargin

\* C24 as stated: an Outer variant is returned only for a pointer in the
\* margin of its own edge, and a pointer in the margin of an edge is never
\* given the Outer variant of another edge.
C24_OuterOfNoOtherEdge ==
    Classified =>
        /\ OuterWithinOwnMargin
        /\ InTopMargin => ddResult \notin {OuterRight, OuterBottom, OuterLeft}
        /\ InBottomMargin => ddResult \notin {OuterTop, OuterRight, OuterLeft}
        /\ InLeftMargin => ddResult \notin {OuterTop, OuterRight, OuterBottom}
        /\ InRightMargin => ddResult \notin {OuterTop, OuterBottom, OuterLeft}

\* C24 amended: an Outer variant is returned only for a pointer in the
\* margin of its own edge; a pointer in the margin of exactly one edge is
\* never given the Outer variant of another edge; a pointer in a corner, in
\* the margins of two edges, is given the Outer variant of the one of the
\* two edges on whose side of both diagonals it lies.
C24_OuterWithinOwnMargin ==
    Classified =>
        /\ OuterWithinOwnMargin
        /\ ddResult \in {OuterTop, OuterRight, OuterBottom, OuterLeft}
               => ddResult \in MarginVariants
        /\ Cardinality(MarginVariants) = 1
               => ddResult \notin {OuterTop, OuterRight, OuterBottom, OuterLeft} \ MarginVariants
        /\ ddResult = OuterTop => AboveMain /\ AboveAnti
        /\ ddResult = OuterRight => AboveMain /\ BelowAnti
        /\ ddResult = OuterBottom => BelowMain /\ BelowAnti
        /\ ddResult = OuterLeft => BelowMain /\ AboveAnti

\* A pointer in the top left corner, in the margins of the top and of the
\* left edge, is given OuterTop.
C24_Witness ==
    /\ Classified
    /\ InTopMargin
    /\ InLeftMargin
    /\ MarginVariants = {OuterTop, OuterLeft}
    /\ ddResult = OuterTop

-----------------------------------------------------------------------------
(* The drag and drop protocol with the timers of the browser: an armed     *)
(* timer fires.                                                            *)

FairSpecDrag ==
    /\ SpecDrag
    /\ WF_vars(\E c \in CursorPoints : BoundsFire(c) /\ UNCHANGED <<ddVars, rzVars, trVars, cbVars>>)
    /\ WF_vars(\E a \in CursorPoints, c \in CursorPoints : BoundsStaleFire(a, c) /\ UNCHANGED <<ddVars, rzVars, trVars, cbVars>>)

-----------------------------------------------------------------------------
(* Properties of the drag and drop protocol. *)

\* The hover handler of the overlay node of the dragged leaf ran in this step.
HoverRanOnDragged ==
    /\ dragItem # NoNode
    /\ lastRun'.handler = "hover"
    /\ lastRun'.node = dragItem

\* C7 as stated: whenever the hover handler of an overlay node runs while
\* the dragged item is that node, it dispatches ClearPendingAction, not
\* ComputeMove, and canDrop is false for the node.
C7_SelfHoverClears ==
    [][HoverRanOnDragged =>
          /\ lastRun'.type = "ClearPendingAction"
          /\ ~canDrop(dragItem, dragItem, clientOffset')]_vars

\* C7 amended: whenever the hover handler of an overlay node runs while the
\* dragged item is that node, it dispatches no ComputeMove and canDrop is
\* false for the node; it dispatches ClearPendingAction when the pointer is
\* over the node at that moment and nothing when the pointer has left it.
C7_NoSelfComputeMove ==
    [][HoverRanOnDragged =>
          /\ lastRun'.type # "ComputeMove"
          /\ ~canDrop(dragItem, dragItem, clientOffset')
          /\ lastRun'.type = (IF NodeAt(renderedTree, clientOffset') = dragItem
                              THEN "ClearPendingAction" ELSE "none")]_vars

C7_Witness ==
    /\ dragItem # NoNode
    /\ lastRun.handler = "hover"
    /\ lastRun.node = dragItem
    /\ lastRun.type = "ClearPendingAction"

\* C8: before a drop only ComputeMove and ClearPendingAction are
\* dispatched, neither changes the tree, the tree of a drag in progress is
\* the tree at its start, and so is the tree after a drag that ends without
\* a commit.
C8_TreeUntouchedBeforeDrop ==
    [][/\ lastRun'.handler # "drop"
            => lastRun'.type \in {"ComputeMove", "ClearPendingAction", "none"}
       /\ lastRun'.type \in {"ComputeMove", "ClearPendingAction", "none"}
            => tree' = tree /\ generation' = generation
       /\ dragItem' # NoNode => tree' = treeAtDragStart'
       /\ (dragItem # NoNode /\ dragItem' = NoNode /\ lastRun'.type # "CommitPendingAction")
            => tree' = treeAtDragStart]_vars

C8_Witness ==
    /\ dragItem # NoNode
    /\ lastRun.handler = "hover"
    /\ lastRun.type = "ComputeMove"
    /\ pendingAction.present
    /\ tree = treeAtDragStart

\* The moved leaf of action a lies in tree t where the direction says.
Placed(t, a) ==
    LET i == IndexOf(t, a.nodeToMove)
        j == IndexOf(t, a.node)
    IN  IF a.direction \in {Top, Left} THEN i = j - 1
        ELSE IF a.direction \in {Bottom, Right, Center} THEN i = j + 1
        ELSE IF a.direction \in {OuterTop, OuterLeft} THEN i = 1
        ELSE i = Len(t)

\* C9: CommitPendingAction applies the pending move and leaves
\* pendingAction absent; dispatched without a pending action it leaves the
\* tree and pendingAction unchanged; a second commit changes nothing.
C9_CommitAppliesAndClears ==
    /\ [][lastRun'.type = "CommitPendingAction" =>
             /\ ~pendingAction'.present
             /\ pendingAction.present =>
                    /\ tree' \in Trees
                    /\ Placed(tree', pendingAction)
                    /\ generation' = generation + 1
             /\ ~pendingAction.present =>
                    /\ tree' = tree
                    /\ generation' = generation
                    /\ pendingAction' = pendingAction]_vars
    /\ [](LET once == treeReducer(ModelState, CommitPendingAct)
          IN  treeReducer(once, CommitPendingAct) = once)

C9_Witness ==
    /\ lastRun.handler = "drop"
    /\ lastRun.type = "CommitPendingAction"
    /\ tree # InitialTree
    /\ ~pendingAction.present

\* The arguments with which the callback of checkForCursorBounds ran in
\* this step.
BoundsRanWith(p) ==
    /\ lastRun'.handler = "bounds"
    /\ lastRun'.arg = p

OnOrOutsideContainer(p) ==
    \/ p.x - ContainerRect.x <= 0
    \/ p.x - ContainerRect.x >= ContainerRect.width
    \/ p.y - ContainerRect.y <= 0
    \/ p.y - ContainerRect.y >= ContainerRect.height

\* C10: once the pointer of a drag rests at a point on or outside the bounds
\* of the display container, checkForCursorBounds eventually runs for that
\* point and dispatches ClearPendingAction; run for a point strictly inside
\* the container it dispatches nothing.
C10_BoundsClears ==
    /\ [][\A p \in Points : BoundsRanWith(p) =>
             IF OnOrOutsideContainer(p)
             THEN lastRun'.type = "ClearPendingAction" /\ ~pendingAction'.present
             ELSE lastRun'.type = "none" /\ pendingAction' = pendingAction]_vars
    /\ \A p \in {q \in Points : OnOrOutsideContainer(q)} :
           (clientOffset = p /\ (boundsTimer = Armed(p) \/ p \in boundsStale))
             ~> (\/ clientOffset # p
                 \/ /\ lastRun.handler = "bounds"
                    /\ lastRun.arg = p
                    /\ lastRun.type = "ClearPendingAction")

C10_Witness ==
    /\ lastRun.handler = "bounds"
    /\ lastRun.arg = XY(ContainerRect.x, 6)
    /\ lastRun.type = "ClearPendingAction"
    /\ dragItem # NoNode

\* The hover handler of overlay node n ran in this step while n could take
\* the dragged item and the pointer lay on a diagonal of the rectangle of n,
\* outside its center region: determineDropDirection returns undefined.
HoverRanOnDiagonal(n) ==
    /\ lastRun'.handler = "hover"
    /\ lastRun'.node = n
    /\ canDrop(n, dragItem, clientOffset')
    /\ determineDropDirection(LeafRect(renderedTree, n), Normalize(clientOffset')) = Undefined

FairSpecDragTimers ==
    /\ FairSpecDrag
    /\ WF_vars(\E n \in Leafs : HoverTrailingFire(n) /\ UNCHANGED <<ddVars, rzVars, trVars, cbVars>>)
    /\ WF_vars(\E n \in Leafs, rt \in Trees : HoverStaleFire(n, rt) /\ UNCHANGED <<ddVars, rzVars, trVars, cbVars>>)
    /\ WF_vars(Render /\ UNCHANGED <<ddVars, rzVars, trVars, cbVars>>)

\* C12 as stated: after a drag that ends without a drop, the pending action
\* is eventually absent.
C12_DragEndClears ==
    (lastRun.handler = "endDrag" /\ pendingAction.present) ~> ~pendingAction.present

\* C23 as stated: CommitPendingAction is dispatched by the drop handler
\* only, once for a drop, which ends the drag; it is dispatched only while
\* a pending action is present in the model; a drop while a pending action
\* is present dispatches it; the pendingAction captured by the drop handler
\* equals the pending action of the model when the handler runs.
C23_DropCommitsOutstanding ==
    [][/\ lastRun'.type = "CommitPendingAction"
            => lastRun'.handler = "drop" /\ dragItem # NoNode /\ dragItem' = NoNode
       /\ lastRun'.handler = "drop"
            => /\ lastRun'.type = "CommitPendingAction" <=> pendingAction.present
               /\ pendingView = pendingAction]_vars

-----------------------------------------------------------------------------
(* First paint and resize handles, TileLayout.tsx:90-110 and 398-448.      *)
(* React renders a change of trackingPointer or of resizeHandleProps       *)
(* before the next event is delivered; the render replaces the throttled   *)
(* handlePointerMove (deps of line 413), and the armed timer of the        *)
(* replaced wrapper stays armed.  onPointerRelease (deps [layoutModel]) is *)
(* never replaced.                                                         *)

\* TileLayout.tsx:109 without the test of isResizing.
AnimateClass_ignoreResizing(an, rs) == an

\* TileLayout.tsx:109  { animate: animate && !isResizing }
AnimateClass(an, rs) == an /\ ~rs

\* TileLayout.tsx:407-412 without the comparison of the pointer ids.
handlePointerMove_anyPointer(track, event) == TRUE

\* TileLayout.tsx:407-412  body of handlePointerMove for a closure holding
\* trackingPointer = track: TRUE when it calls layoutModel.onResizeMove.
handlePointerMove(track, event) == track = event.pointerId

\* TileLayout.tsx:428-431 without the reset of trackingPointer.
onPointerRelease_keepTracking(track) == track

\* TileLayout.tsx:428-431  body of onPointerRelease: the value it gives
\* trackingPointer (undefined) before it calls layoutModel.onResizeEnd.
onPointerRelease(track) == NoPointer

\* layoutModel.onResizeMove / onResizeEnd (specification 4.4): a resize is
\* in progress from the first move to the end.
IsResizingAfter(fn, before) ==
    IF fn = "onResizeMove" THEN TRUE
    ELSE IF fn = "onResizeEnd" THEN FALSE
    ELSE before

\* The pending trailing timers of handle h once its wrapper is replaced:
\* the closure of the replaced wrapper holds the trackingPointer of now.  A
\* timer whose body will make no call is left out.
StaleAfterReplace(h) ==
    IF /\ moveThrottle[h].state = "trailing"
       /\ handlePointerMove(trackingPointer[h], moveThrottle[h].event)
    THEN moveStale[h] \cup {[track |-> trackingPointer[h], event |-> moveThrottle[h].event]}
    ELSE moveStale[h]

\* The call the throttled body of handle h makes for `event` in a closure
\* holding `track`.
MoveCall(h, track, event) ==
    IF handlePointerMove(track, event)
    THEN [fn |-> "onResizeMove", handle |-> h, track |-> track, event |-> event,
          stale |-> FALSE]
    ELSE NoCall

\* The call made from the timer of a discarded wrapper.
FromDiscarded(call) == IF call.fn = "none" THEN call ELSE [call EXCEPT !.stale = TRUE]

\* Timers of discarded wrappers hold events that arrived before the event
\* the current wrapper runs.
OvertakeAll(timers) == {[t EXCEPT !.event = Overtaken(@)] : t \in timers}

\* TileLayout.tsx:93-99  the mount effect of TileLayoutComponent.
Mount ==
    /\ readyTimer = "unset"
    /\ ready' = FALSE
    /\ readyTimer' = "armed"
    /\ lastCall' = NoCall
    /\ UNCHANGED <<animate, isResizing, captureTarget, gotDue, trackingPointer, moveThrottle,
                   moveStale, releaseTimer>>

\* TileLayout.tsx:95-98  the 50ms timer fires.
FirstPaintTimerFire ==
    /\ readyTimer = "armed"
    /\ animate' = TRUE
    /\ ready' = TRUE
    /\ readyTimer' = "fired"
    /\ lastCall' = NoCall
    /\ UNCHANGED <<isResizing, captureTarget, gotDue, trackingPointer, moveThrottle,
                   moveStale, releaseTimer>>

\* TileLayout.tsx:417-419  pointerdown of pointer p on handle h:
\* setPointerCapture(event.pointerId).
PointerDown(h, p) ==
    /\ readyTimer # "unset"
    /\ captureTarget[p] = NoHandle
    /\ captureTarget' = [captureTarget EXCEPT ![p] = h]
    /\ gotDue' = [gotDue EXCEPT ![p] = TRUE]
    /\ lastCall' = NoCall
    /\ UNCHANGED <<ready, animate, readyTimer, isResizing, trackingPointer, moveThrottle,
                   moveStale, releaseTimer>>

\* TileLayout.tsx:422-424  gotpointercapture of pointer p at the handle that
\* captured it: setTrackingPointer(event.pointerId).
GotPointerCapture(p) ==
    /\ gotDue[p]
    /\ LET h == captureTarget[p]
       IN  /\ trackingPointer' = [trackingPointer EXCEPT ![h] = p]
           /\ IF trackingPointer[h] # p
              THEN /\ moveStale' = [moveStale EXCEPT ![h] = StaleAfterReplace(h)]
                   /\ moveThrottle' = [moveThrottle EXCEPT ![h] = IdleThrottle]
              ELSE UNCHANGED <<moveStale, moveThrottle>>
    /\ gotDue' = [gotDue EXCEPT ![p] = FALSE]
    /\ lastCall' = NoCall
    /\ UNCHANGED <<ready, animate, readyTimer, isResizing, captureTarget, releaseTimer>>

\* TileLayout.tsx:406-414, 445  pointermove of pointer p at handle h, which
\* holds the capture of p or lies under the uncaptured pointer.  The
\* browser delivers gotpointercapture before any other event of the
\* pointer.  `changed`: onResizeMove changed resizeHandleProps.
PointerMove(h, p, changed) ==
    /\ readyTimer # "unset"
    /\ ~gotDue[p]
    /\ captureTarget[p] \in {h, NoHandle}
    /\ LET e == PointerEvent(p)
           call == MoveCall(h, trackingPointer[h], e)
       IN  IF moveThrottle[h].state = "open"
           THEN /\ lastCall' = call
                /\ isResizing' = IsResizingAfter(call.fn, isResizing)
                /\ moveThrottle' = [moveThrottle EXCEPT ![h] =
                       IF changed /\ call.fn = "onResizeMove"
                       THEN IdleThrottle ELSE ClosedThrottle]
                /\ moveStale' = [moveStale EXCEPT ![h] =
                       IF call.fn = "onResizeMove" THEN OvertakeAll(@) ELSE @]
           ELSE /\ moveThrottle' = [moveThrottle EXCEPT ![h] =
                       TrailingThrottle(e)]
                /\ lastCall' = NoCall
                /\ UNCHANGED <<isResizing, moveStale>>
    /\ UNCHANGED <<ready, animate, readyTimer, captureTarget, gotDue, trackingPointer,
                   releaseTimer>>

\* More than 10ms have passed since handlePointerMove of h last ran.
MoveWindowElapse(h) ==
    /\ moveThrottle[h].state = "closed"
    /\ moveThrottle' = [moveThrottle EXCEPT ![h] = IdleThrottle]
    /\ lastCall' = NoCall
    /\ UNCHANGED <<ready, animate, readyTimer, isResizing, captureTarget, gotDue,
                   trackingPointer, moveStale, releaseTimer>>

\* The trailing timer of the current handlePointerMove of h fires.
MoveTrailingFire(h, changed) ==
    /\ moveThrottle[h].state = "trailing"
    /\ LET call == MoveCall(h, trackingPointer[h], moveThrottle[h].event)
       IN  /\ lastCall' = call
           /\ isResizing' = IsResizingAfter(call.fn, isResizing)
           /\ moveThrottle' = [moveThrottle EXCEPT ![h] =
                  IF changed /\ call.fn = "onResizeMove"
                  THEN IdleThrottle ELSE ClosedThrottle]
           /\ moveStale' = [moveStale EXCEPT ![h] =
                  IF call.fn = "onResizeMove" THEN OvertakeAll(@) ELSE @]
    /\ UNCHANGED <<ready, animate, readyTimer, captureTarget, gotDue, trackingPointer,
                   releaseTimer>>

\* The trailing timer t of a discarded handlePointerMove of h fires.
MoveStaleFire(h, t, changed) ==
    /\ t \in moveStale[h]
    /\ LET call == FromDiscarded(MoveCall(h, t.track, t.event))
       IN  /\ lastCall' = call
           /\ isResizing' = IsResizingAfter(call.fn, isResizing)
           /\ IF changed /\ call.fn = "onResizeMove"
              THEN /\ moveStale' = [moveStale EXCEPT ![h] = StaleAfterReplace(h) \ {t}]
                   /\ moveThrottle' = [moveThrottle EXCEPT ![h] = IdleThrottle]
              ELSE /\ moveStale' = [moveStale EXCEPT ![h] = @ \ {t}]
                   /\ UNCHANGED moveThrottle
    /\ UNCHANGED <<ready, animate, readyTimer, captureTarget, gotDue, trackingPointer,
                   releaseTimer>>

\* TileLayout.tsx:427-433, 443  lostpointercapture of pointer p at the handle
\* that held it (pointer up, pointer cancel, or capture released): the
\* debounced onPointerRelease is called.
LostPointerCapture(p) ==
    /\ captureTarget[p] # NoHandle
    /\ ~gotDue[p]
    /\ releaseTimer' = [releaseTimer EXCEPT ![captureTarget[p]] = TRUE]
    /\ captureTarget' = [captureTarget EXCEPT ![p] = NoHandle]
    /\ lastCall' = NoCall
    /\ UNCHANGED <<ready, animate, readyTimer, isResizing, gotDue, trackingPointer,
                   moveThrottle, moveStale>>

\* The 30ms timer of onPointerRelease of h fires: trackingPointer is reset
\* and layoutModel.onResizeEnd is called.
ReleaseFire(h) ==
    /\ releaseTimer[h]
    /\ releaseTimer' = [releaseTimer EXCEPT ![h] = FALSE]
    /\ trackingPointer' = [trackingPointer EXCEPT ![h] = onPointerRelease(@)]
    /\ IF onPointerRelease(trackingPointer[h]) # trackingPointer[h]
       THEN /\ moveStale' = [moveStale EXCEPT ![h] = StaleAfterReplace(h)]
            /\ moveThrottle' = [moveThrottle EXCEPT ![h] = IdleThrottle]
       ELSE UNCHANGED <<moveStale, moveThrottle>>
    /\ lastCall' = [fn |-> "onResizeEnd", handle |-> h, track |-> NoPointer, event |-> NoEvent,
                     stale |-> FALSE]
    /\ isResizing' = IsResizingAfter("onResizeEnd", isResizing)
    /\ UNCHANGED <<ready, animate, readyTimer, captureTarget, gotDue>>

\* The drag and drop protocol sets or clears the pending action (SpecDrag).
PendingActionChanges(a) ==
    /\ readyTimer # "unset"
    /\ pendingAction # a
    /\ pendingAction' = a
    /\ pendingView' = a
    /\ lastCall' = NoCall
    /\ UNCHANGED <<tree, generation, renderedGen, renderedTree, dragItem, clientOffset,
                   hoverThrottle, hoverStale, boundsTimer, boundsStale, treeAtDragStart, lastRun>>
    /\ UNCHANGED <<ready, animate, readyTimer, isResizing, captureTarget, gotDue,
                   trackingPointer, moveThrottle, moveStale, releaseTimer>>

PendingActions == {NoAction, MoveAction(2, 1, Left)}

InitResize == DdIdle /\ DragInit /\ ResizeInit /\ TreeIdle /\ CopyIdle

\* First paint and one resize handle with all its events.
OneHandle == {1}

NextResize ==
    \/ Mount /\ UNCHANGED <<ddVars, dragVars, trVars, cbVars>>
    \/ FirstPaintTimerFire /\ UNCHANGED <<ddVars, dragVars, trVars, cbVars>>
    \/ \E h \in OneHandle, p \in Pointers : PointerDown(h, p) /\ UNCHANGED <<ddVars, dragVars, trVars, cbVars>>
    \/ \E p \in Pointers : GotPointerCapture(p) /\ UNCHANGED <<ddVars, dragVars, trVars, cbVars>>
    \/ \E h \in OneHandle, p \in Pointers, c \in BOOLEAN :
           PointerMove(h, p, c) /\ UNCHANGED <<ddVars, dragVars, trVars, cbVars>>
    \/ \E h \in OneHandle : MoveWindowElapse(h) /\ UNCHANGED <<ddVars, dragVars, trVars, cbVars>>
    \/ \E h \in OneHandle, c \in BOOLEAN :
           MoveTrailingFire(h, c) /\ UNCHANGED <<ddVars, dragVars, trVars, cbVars>>
    \/ \E h \in OneHandle, t \in [track : Pointers, event : [pointerId : Pointers, late : BOOLEAN]],
          c \in BOOLEAN :
           MoveStaleFire(h, t, c) /\ UNCHANGED <<ddVars, dragVars, trVars, cbVars>>
    \/ \E p \in Pointers : LostPointerCapture(p) /\ UNCHANGED <<ddVars, dragVars, trVars, cbVars>>
    \/ \E h \in OneHandle : ReleaseFire(h) /\ UNCHANGED <<ddVars, dragVars, trVars, cbVars>>
    \/ \E a \in PendingActions : PendingActionChanges(a) /\ UNCHANGED <<ddVars, trVars, cbVars>>

SpecResize == InitResize /\ [][NextResize]_vars

\* The pointer capture of all the resize handles of a layout.  The pointer
\* moves are left out: they neither read nor write captureTarget, gotDue,
\* releaseTimer, and they read trackingPointer only.
NextCapture ==
    \/ Mount /\ UNCHANGED <<ddVars, dragVars, trVars, cbVars>>
    \/ FirstPaintTimerFire /\ UNCHANGED <<ddVars, dragVars, trVars, cbVars>>
    \/ \E h \in Handles, p \in Pointers : PointerDown(h, p) /\ UNCHANGED <<ddVars, dragVars, trVars, cbVars>>
    \/ \E p \in Pointers : GotPointerCapture(p) /\ UNCHANGED <<ddVars, dragVars, trVars, cbVars>>
    \/ \E p \in Pointers : LostPointerCapture(p) /\ UNCHANGED <<ddVars, dragVars, trVars, cbVars>>
    \/ \E h \in Handles : ReleaseFire(h) /\ UNCHANGED <<ddVars, dragVars, trVars, cbVars>>
    \/ \E a \in PendingActions : PendingActionChanges(a) /\ UNCHANGED <<ddVars, trVars, cbVars>>

SpecCapture == InitResize /\ [][NextCapture]_vars

\* The timers of the browser fire.
FairSpecResize ==
    /\ SpecResize
    /\ WF_vars(FirstPaintTimerFire /\ UNCHANGED <<ddVars, dragVars, trVars, cbVars>>)
    /\ WF_vars(\E h \in OneHandle : ReleaseFire(h) /\ UNCHANGED <<ddVars, dragVars, trVars, cbVars>>)

-----------------------------------------------------------------------------
(* Properties of the resize handles and of the first paint. *)

\* Handle h called layoutModel.onResizeMove in this step.
CalledOnResizeMove(h) == lastCall'.fn = "onResizeMove" /\ lastCall'.handle = h

C14_CaptureLossEndsResize ==
    /\ [][\A p \in Pointers :
             (captureTarget[p] # NoHandle /\ captureTarget'[p] = NoHandle)
                => releaseTimer'[captureTarget[p]]]_vars
    /\ \A h \in OneHandle :
           releaseTimer[h] ~> /\ lastCall.fn = "onResizeEnd"
                              /\ lastCall.handle = h
                              /\ trackingPointer[h] = NoPointer
    /\ [](\A h \in Handles :
              trackingPointer[h] # NoPointer
                 => \/ captureTarget[trackingPointer[h]] = h
                    \/ releaseTimer[h])

C14_Witness ==
    /\ lastCall.fn = "onResizeEnd"
    /\ lastCall.handle = 1
    /\ trackingPointer[1] = NoPointer
    /\ ~releaseTimer[1]
    /\ \A p \in Pointers : captureTarget[p] = NoHandle
    /\ ~isResizing

\* C15 as stated: at most one resize handle of a layout tracks a pointer.
C15_OneResizeAtATime ==
    Cardinality({h \in Handles : trackingPointer[h] # NoPointer}) <= 1

\* C16 as stated: while a pending action is present no handle starts to
\* track a pointer, and no handle calls onResizeMove.
C16_NoResizeDuringPendingAction ==
    [][/\ pendingAction.present
            => \A h \in Handles : trackingPointer'[h] \in {trackingPointer[h], NoPointer}
       /\ (\E h \in Handles : CalledOnResizeMove(h)) => ~pendingAction'.present]_vars

\* C17 as stated, for the resize moves: the events a handle passes to
\* onResizeMove are passed in the order of their arrival.
C17_CallsInArrivalOrder ==
    [][\A h \in Handles : CalledOnResizeMove(h) => ~lastCall'.event.late]_vars

\* C18: the mount sets ready to false; ready and animate are false while
\* the 50ms timer is armed; ready becomes true only in the step in which
\* the timer fires, together with animate; the class animate is applied
\* only after the timer fired and while isResizing is false.
C18_ReadyAfterFirstPaint ==
    /\ [][(readyTimer = "unset" /\ readyTimer' # "unset") => ~ready']_vars
    /\ [](readyTimer = "armed" => ~ready /\ ~animate)
    /\ [][(ready' /\ ~ready) =>
             /\ readyTimer = "armed"
             /\ readyTimer' = "fired"
             /\ animate']_vars
    /\ [](AnimateClass(animate, isResizing) => readyTimer = "fired" /\ ~isResizing)

\* The timer has fired and a resize in progress withholds the class.
C18_Witness ==
    /\ readyTimer = "fired"
    /\ ready
    /\ animate
    /\ isResizing
    /\ ~AnimateClass(animate, isResizing)

\* C21 as stated, for the resize handles: once a render has re-created
\* handlePointerMove, no timer armed by the discarded handler calls
\* layoutModel.onResizeMove; the timers of a discarded handler are
\* cancelled.
C21_DiscardedTimersCancelled ==
    [][\A h \in Handles : CalledOnResizeMove(h) => ~lastCall'.stale]_vars

\* C22 as stated: trackingPointer of a handle is undefined from the call of
\* onResizeEnd to the next gotpointercapture; a handle whose trackingPointer
\* is undefined and which holds no pointer capture does not call
\* layoutModel.onResizeMove, so that onResizeEnd is the last call of a
\* resize.
C22_OnResizeEndIsLast ==
    [][\A h \in Handles :
          CalledOnResizeMove(h) =>
              \/ trackingPointer[h] # NoPointer
              \/ \E p \in Pointers : captureTarget[p] = h]_vars

-----------------------------------------------------------------------------
(* Operations of the layout tree (specification 3 and 4.2) and the display *)
(* nodes rendered from it (TileLayout.tsx:136-154).                        *)

\* The nodes of the subtree rooted at n.
RECURSIVE Subtree(_, _)
Subtree(ts, n) ==
    {n} \cup UNION {Subtree(ts, ts.children[n][i]) : i \in DOMAIN ts.children[n]}

\* The container that holds n, NoNode for the root.
ParentOf(ts, n) ==
    LET ps == {c \in NodeIds : \E i \in DOMAIN ts.children[c] : ts.children[c][i] = n}
    IN  IF ps = {} THEN NoNode ELSE CHOOSE c \in ps : TRUE

Without(seq, n) == SelectSeq(seq, LAMBDA x : x # n)

Substitute(seq, old, new) == [i \in DOMAIN seq |-> IF seq[i] = old THEN new ELSE seq[i]]

\* Node `new` takes the place of node `old` under the parent of `old`.
Reattach(ts, old, new) ==
    IF ParentOf(ts, old) = NoNode
    THEN [ts EXCEPT !.rootNode = new]
    ELSE [ts EXCEPT !.children[ParentOf(ts, old)] = Substitute(@, old, new)]

\* The nodes of S are destroyed.
Destroy(ts, S) ==
    [ts EXCEPT !.kind = [n \in NodeIds |-> IF n \in S THEN "free" ELSE ts.kind[n]],
               !.children = [n \in NodeIds |-> IF n \in S THEN <<>> ELSE ts.children[n]]]

FreeIds(ts) == {n \in NodeIds : ts.kind[n] = "free"}

FreshId(ts) == CHOOSE n \in FreeIds(ts) : \A m \in FreeIds(ts) : n <= m

\* Node n is taken out of its parent, which keeps a single child.
Detach_noCollapse(ts, n) ==
    IF ParentOf(ts, n) = NoNode
    THEN [ts EXCEPT !.rootNode = NoNode]
    ELSE [ts EXCEPT !.children[ParentOf(ts, n)] = Without(@, n)]

\* Node n is taken out of its parent; a parent left with exactly one child
\* collapses: the child takes its place and the parent is destroyed.
Detach(ts, n) ==
    LET par == ParentOf(ts, n)
        rest == Without(ts.children[par], n)
        cut == [ts EXCEPT !.children[par] = rest]
    IN  IF par = NoNode THEN [ts EXCEPT !.rootNode = NoNode]
        ELSE IF Len(rest) = 1 THEN Destroy(Reattach(cut, par, rest[1]), {par})
        ELSE cut

\* insert(parentId, newNode, index)
insert(ts, parentId, newId, index) ==
    [ts EXCEPT !.kind[newId] = "leaf",
               !.children[parentId] = InsertLeaf(@, index, newId)]

\* remove(nodeId): the subtree is detached and destroyed.
remove(ts, n) ==
    LET gone == Subtree(ts, n)
        left == Destroy(Detach(ts, n), gone)
    IN  [left EXCEPT !.magnifiedNodeId = IF @ \in gone THEN NoNode ELSE @]

\* swapOrMove(nodeId, targetId, direction): the leaf n is taken out and put
\* next to the leaf target, as a sibling in the container of the target or
\* in a new container that takes the place of the target.
move(ts, n, target, wrap, before) ==
    LET cut == Detach(ts, n)
        par == ParentOf(cut, target)
        c == FreshId(cut)
        k == IndexOf(cut.children[par], target)
    IN  IF wrap \/ par = NoNode
        THEN [Reattach(cut, target, c) EXCEPT
                  !.kind[c] = "container",
                  !.children[c] = IF before THEN <<n, target>> ELSE <<target, n>>]
        ELSE [cut EXCEPT !.children[par] = InsertLeaf(@, IF before THEN k ELSE k + 1, n)]

\* magnifyNode(node): the node becomes the magnified one, or stops being it.
magnifyNode(ts, n) == [ts EXCEPT !.magnifiedNodeId = IF @ = n THEN NoNode ELSE n]

\* layoutModel.leafs: the leafs in layout order.
RECURSIVE LeafOrder(_, _)
LeafOrder(ts, stack) ==
    IF stack = <<>> THEN <<>>
    ELSE IF ts.kind[Head(stack)] = "leaf"
         THEN <<Head(stack)>> \o LeafOrder(ts, Tail(stack))
         ELSE LeafOrder(ts, ts.children[Head(stack)] \o Tail(stack))

LayoutLeafs(ts) == IF ts.rootNode = NoNode THEN <<>> ELSE LeafOrder(ts, <<ts.rootNode>>)

\* TileLayout.tsx:147 with the class given to every leaf while a node is
\* magnified.
MagnifiedClass_anyMagnified(leafId, magnifiedNodeId) == magnifiedNodeId # NoNode

\* TileLayout.tsx:147  magnified: layoutModel.treeState.magnifiedNodeId === leaf.id
MagnifiedClass(leafId, magnifiedNodeId) == magnifiedNodeId = leafId

\* TileLayout.tsx:140-151  one DisplayNode for every leaf of layoutModel.leafs.
DisplayNodes(ts) ==
    LET leafs == LayoutLeafs(ts)
    IN  [i \in 1 .. Len(leafs) |->
            [id |-> leafs[i], magnified |-> MagnifiedClass(leafs[i], ts.magnifiedNodeId)]]

\* The layout model takes the tree state ts and React renders it.
SetTree(ts, op, collapsed) ==
    /\ treeState' = ts
    /\ displayed' = DisplayNodes(treeState')
    /\ lastOp' = [op |-> op, collapsed |-> collapsed]

\* A new leaf is inserted into node parentId at index; a parent that is not
\* a container rejects the insertion.
InsertNode(parentId, index) ==
    /\ FreeIds(treeState) # {}
    /\ IF treeState.kind[parentId] = "container"
       THEN /\ index <= Len(treeState.children[parentId]) + 1
            /\ SetTree(insert(treeState, parentId, FreshId(treeState), index), "insert", FALSE)
       ELSE /\ index = 1
            /\ SetTree(treeState, "rejected", FALSE)

\* TileLayout.tsx:264  layoutModel.closeNode(layoutNode), and the removal of
\* any other node.
RemoveNode(n) ==
    /\ treeState.kind[n] # "free"
    /\ SetTree(remove(treeState, n), "remove",
               /\ ParentOf(treeState, n) # NoNode
               /\ Len(treeState.children[ParentOf(treeState, n)]) = 2)

\* The leaf n is moved next to the leaf target (commit of a drop).
MoveNode(n, target, wrap, before) ==
    /\ treeState.kind[n] = "leaf"
    /\ treeState.kind[target] = "leaf"
    /\ n # target
    /\ FreeIds(Detach(treeState, n)) # {}
    /\ SetTree(move(treeState, n, target, wrap, before), "move", FALSE)

\* TileLayout.tsx:263  layoutModel.magnifyNode(layoutNode)
MagnifyNode(n) ==
    /\ treeState.kind[n] = "leaf"
    /\ SetTree(magnifyNode(treeState, n), "magnify", FALSE)

\* A root container with two leafs.
InitialTreeState ==
    [rootNode |-> 1,
     kind |-> [n \in NodeIds |-> IF n = 1 THEN "container" ELSE IF n \in {2, 3} THEN "leaf" ELSE "free"],
     children |-> [n \in NodeIds |-> IF n = 1 THEN <<2, 3>> ELSE <<>>],
     magnifiedNodeId |-> NoNode]

TreeInit ==
    /\ treeState = InitialTreeState
    /\ displayed = DisplayNodes(InitialTreeState)
    /\ lastOp = NoOp

InitTree == DdIdle /\ DragInit /\ ResizeIdle /\ TreeInit /\ CopyIdle

NextTree ==
    \/ \E parentId \in NodeIds, index \in 1 .. Cardinality(NodeIds) :
           InsertNode(parentId, index) /\ UNCHANGED <<ddVars, dragVars, rzVars, cbVars>>
    \/ \E n \in NodeIds : RemoveNode(n) /\ UNCHANGED <<ddVars, dragVars, rzVars, cbVars>>
    \/ \E n \in NodeIds, target \in NodeIds, wrap \in BOOLEAN, before \in BOOLEAN :
           MoveNode(n, target, wrap, before) /\ UNCHANGED <<ddVars, dragVars, rzVars, cbVars>>
    \/ \E n \in NodeIds : MagnifyNode(n) /\ UNCHANGED <<ddVars, dragVars, rzVars, cbVars>>

SpecTree == InitTree /\ [][NextTree]_vars

-----------------------------------------------------------------------------
(* Properties of the layout tree. *)

\* C19: at most one rendered DisplayNode carries the class magnified, and
\* no two rendered DisplayNodes have the same leaf id.
C19_AtMostOneMagnified ==
    /\ Cardinality({i \in DOMAIN displayed : displayed[i].magnified}) <= 1
    /\ \A i, j \in DOMAIN displayed : displayed[i].id = displayed[j].id => i = j

\* A leaf was moved among three leafs of which one is magnified, and that
\* one alone has the class.
C19_Witness ==
    /\ lastOp.op = "move"
    /\ treeState.magnifiedNodeId # NoNode
    /\ Len(displayed) = 3
    /\ Cardinality({i \in DOMAIN displayed : displayed[i].magnified}) = 1

\* C20: no container of the tree has fewer than 2 children.
C20_NoSmallContainer ==
    \A n \in NodeIds : treeState.kind[n] = "container" => Len(treeState.children[n]) >= 2

\* A removal left a parent with one child, the parent collapsed, and a
\* container is still in the tree.
C20_Witness ==
    /\ lastOp.op = "remove"
    /\ lastOp.collapsed
    /\ \E n \in NodeIds : treeState.kind[n] = "container"

-----------------------------------------------------------------------------
(* The CopyButton, copybutton.tsx:15-54.  A click is a discrete event:     *)
(* React renders its setIsCopied(true) before the next event is            *)
(* delivered.  The setIsCopied(false) of the timer is rendered by a        *)
(* separate step, at once or after other events.                           *)

\* copybutton.tsx:19-35 without the test of isCopied.
handleOnClick_noGuard(view) == TRUE

\* copybutton.tsx:19-22  handleOnClick in a closure holding isCopied = view:
\* TRUE when it goes on past the early return.
handleOnClick(view) == ~view

\* copybutton.tsx:24-26  clearTimeout(timeoutRef.current) when the ref is set.
ClearTimeoutRef(timers, ref) == IF ref # NoTimeout THEN timers \ {ref} ELSE timers

\* copybutton.tsx:19-35, 47  a click on the button.
Click ==
    /\ copyMounted
    /\ clicks < MaxClicks
    /\ clicks' = clicks + 1
    /\ IF handleOnClick(copiedView)
       THEN /\ isCopied' = TRUE
            /\ copiedView' = TRUE
            /\ pendingTimeouts' = ClearTimeoutRef(pendingTimeouts, timeoutRef) \cup {nextTimeout}
            /\ timeoutRef' = nextTimeout
            /\ nextTimeout' = nextTimeout + 1
            /\ onClickCalls' = IF onClickProp THEN onClickCalls + 1 ELSE onClickCalls
            /\ copiedPeriods' = IF isCopied THEN copiedPeriods ELSE copiedPeriods + 1
            /\ lastCopy' = CopyStep("click", onClickProp)
       ELSE /\ lastCopy' = CopyStep("click", FALSE)
            /\ UNCHANGED <<isCopied, copiedView, pendingTimeouts, timeoutRef, nextTimeout,
                           onClickCalls, copiedPeriods>>
    /\ UNCHANGED <<copyMounted, onClickProp>>

\* copybutton.tsx:27-30  the 2000ms timer `id` fires.
CopyTimerFire(id) ==
    /\ id \in pendingTimeouts
    /\ pendingTimeouts' = pendingTimeouts \ {id}
    /\ isCopied' = FALSE
    /\ timeoutRef' = NoTimeout
    /\ lastCopy' = CopyStep("timer", FALSE)
    /\ UNCHANGED <<copyMounted, onClickProp, copiedView, nextTimeout, clicks, onClickCalls,
                   copiedPeriods>>

\* copybutton.tsx:45-53  React renders the button after the timer changed
\* isCopied.
CopyRender ==
    /\ copyMounted
    /\ copiedView # isCopied
    /\ copiedView' = isCopied
    /\ lastCopy' = CopyStep("render", FALSE)
    /\ UNCHANGED <<copyMounted, onClickProp, isCopied, timeoutRef, pendingTimeouts, nextTimeout,
                   clicks, onClickCalls, copiedPeriods>>

\* copybutton.tsx:37-43  the button unmounts: the cleanup of the effect runs.
CopyUnmount ==
    /\ copyMounted
    /\ copyMounted' = FALSE
    /\ pendingTimeouts' = ClearTimeoutRef(pendingTimeouts, timeoutRef)
    /\ lastCopy' = CopyStep("unmount", FALSE)
    /\ UNCHANGED <<onClickProp, isCopied, copiedView, timeoutRef, nextTimeout, clicks,
                   onClickCalls, copiedPeriods>>

InitCopy == DdIdle /\ DragInit /\ ResizeIdle /\ TreeIdle /\ CopyInit

NextCopy ==
    \/ Click /\ UNCHANGED <<ddVars, dragVars, rzVars, trVars>>
    \/ \E id \in 1 .. MaxClicks : CopyTimerFire(id) /\ UNCHANGED <<ddVars, dragVars, rzVars, trVars>>
    \/ CopyRender /\ UNCHANGED <<ddVars, dragVars, rzVars, trVars>>
    \/ CopyUnmount /\ UNCHANGED <<ddVars, dragVars, rzVars, trVars>>

SpecCopy == InitCopy /\ [][NextCopy]_vars

-----------------------------------------------------------------------------
(* Properties of the CopyButton. *)

\* What a step of the CopyButton may do.
CopyStepAllowed ==
    /\ lastCopy'.called => (lastCopy'.step = "click" /\ ~isCopied /\ isCopied')
    /\ (~isCopied /\ isCopied') => (lastCopy'.step = "click" /\ lastCopy'.called = onClickProp)
    /\ (lastCopy'.step = "click" /\ isCopied)
          => /\ ~lastCopy'.called
             /\ onClickCalls' = onClickCalls
             /\ isCopied'
             /\ timeoutRef' = timeoutRef
             /\ pendingTimeouts' = pendingTimeouts
    /\ lastCopy'.step = "timer" => (isCopied /\ ~isCopied' /\ pendingTimeouts' = {})

\* C25: the onClick prop is called only by the click that takes isCopied
\* from false to true, and that click calls it when the prop is given, so
\* the number of calls equals the number of copied periods; a click while
\* isCopied is true calls nothing and leaves the timer as it is; at most
\* one timer is pending, and only while isCopied is true; a timer that
\* fires sets isCopied to false; no timer is pending after the unmount.
C25_ClicksIgnoredWhileCopied ==
    /\ [][CopyStepAllowed]_vars
    /\ [](onClickCalls = IF onClickProp THEN copiedPeriods ELSE 0)
    /\ [](Cardinality(pendingTimeouts) <= 1)
    /\ [](pendingTimeouts # {} => (isCopied /\ pendingTimeouts = {timeoutRef}))
    /\ [](~copyMounted => pendingTimeouts = {})

\* A second copied period: the first timer has fired, a click entered the
\* period and called onClick, and a further click was ignored.
C25_Witness ==
    /\ copyMounted
    /\ onClickProp
    /\ isCopied
    /\ copiedPeriods = 2
    /\ onClickCalls = 2
    /\ clicks = 3
    /\ lastCopy = CopyStep("click", FALSE)
    /\ pendingTimeouts = {timeoutRef}

====
